---------------------------- MODULE Spec2Model ----------------------------
(***************************************************************************)
(* ddbio-ngsflow: stage functions that build the command line of an        *)
(* external tool, write it to the master log, execute it and return the    *)
(* conventional name of the output file.                                   *)
(*                                                                         *)
(* Strings are TLA+ strings and "{}".format / "%s" % / " ".join are string *)
(* concatenation, so that names and command lines are the byte strings the *)
(* Python code builds.  A stage is the sequence of its statements; the     *)
(* actions execute one statement at a time.                                *)
(***************************************************************************)
EXTENDS Integers, Sequences, FiniteSets, TLC

VARIABLES
    pc,            \* 0: no call is running; n > 0: next statement of the running stage
    call,          \* the arguments of the running (or last) stage call
    cpu_count,     \* what multiprocessing.cpu_count() answers on this machine
    trace,         \* what the call did so far, in order: master-log lines, executions, touches
    result,        \* how the last call ended: nothing yet, a returned value, or an exception
    sample_config, \* the list of sample records run_mark_duplicates works on
    instructions,  \* the (command, logfile) list run_mark_duplicates built in its last call
    caller_configs \* the project_config, tool_config and resource_config dicts of the caller

vars == <<pc, call, cpu_count, trace, result, sample_config, instructions, caller_configs>>

----------------------------------------------------------------------------
(* Bounds of the model.                                                    *)

MaxCpu == 2
MaxThreads == 2

Samples == {"S1", "S2"}
References == {"hg19.fa", "b37.fa"}
SnpeffReferences == {"GRCh37", "hg19"}
InputBams == {"in.bam", "S1.rg.sorted.bam"}
InputVcfs == {"in.vcf", "S1.platypus.vcf"}
TargetFiles == {"S1.targets.intervals", "S2.targets.intervals"}
ExitStatuses == {0, 1}

----------------------------------------------------------------------------
(* Python values: dict lookup, str.format, str.join, repr.                 *)

\* The value a failed dict lookup puts in place of the string: evaluating an
\* expression that contains it raises KeyError.
KeyErr == "<KeyError>"

NoDict == <<>>

\* d[k] for a nested dict
Sub(d, k) == IF k \in DOMAIN d THEN d[k] ELSE NoDict

\* "{}".format(d.get(k)): a lookup that answers None for a missing key
GetS_default(d, k) == IF k \in DOMAIN d THEN d[k] ELSE "None"

\* "{}".format(d[k]) for a string value
GetS(d, k) == IF k \in DOMAIN d THEN d[k] ELSE KeyErr

\* "{}".format(d[k]) for an integer value
GetI(d, k) == IF k \in DOMAIN d THEN ToString(d[k]) ELSE KeyErr

\* str(d) of the dict config['gatk'] (keys in sorted order)
DictStr(d) ==
    "{" \o (IF "bin" \in DOMAIN d THEN "'bin': '" \o d["bin"] \o "'" ELSE "")
        \o (IF DOMAIN d = {"bin", "max_mem"} THEN ", " ELSE "")
        \o (IF "max_mem" \in DOMAIN d THEN "'max_mem': " \o ToString(d["max_mem"]) ELSE "")
        \o "}"

\* "{}".format(d[k]) for a dict value
GetD(d, k) == IF k \in DOMAIN d THEN DictStr(d[k]) ELSE KeyErr

\* "pre{}post".format(v)
Fmt(pre, v, post) == IF v = KeyErr THEN KeyErr ELSE pre \o v \o post

\* "{}.snpEff.{}.vcf".format(a, b)
Fmt2(pre, a, mid, b, post) ==
    IF a = KeyErr \/ b = KeyErr THEN KeyErr ELSE pre \o a \o mid \o b \o post

HasKeyError(t) == \E i \in DOMAIN t : t[i] = KeyErr

RECURSIVE Join(_, _)
\* sep.join(t)
Join(t, sep) ==
    IF t = <<>> THEN ""
    ELSE IF Len(t) = 1 THEN t[1]
    ELSE t[1] \o sep \o Join(Tail(t), sep)

----------------------------------------------------------------------------
(* The configuration dictionaries the stages are called with.              *)

FullConfig(reference, snpeff_reference) ==
    [ gatk     |-> [bin |-> "/opt/gatk.jar", max_mem |-> 4],
      snpeff   |-> [bin |-> "snpEff", max_mem |-> 8, reference |-> snpeff_reference],
      gemini   |-> [bin |-> "gemini", num_cores |-> 2],
      vcfanno  |-> [bin |-> "vcfanno", num_cores |-> 2, lua |-> "custom.lua",
                    conf |-> "conf.toml"],
      reference |-> reference,
      regions   |-> "panel.bed",
      dbsnp     |-> "dbsnp.vcf",
      indel1    |-> "mills.vcf",
      indel2    |-> "1000g.vcf",
      coverage_loci_threshold |-> 20,
      bad_mate_threshold      |-> 50,
      coverage_threshold      |-> 200,
      quality_loci_threshold  |-> 30,
      picard    |-> "/opt/picard.jar",
      platypus  |-> "Platypus.py",
      platypus_regions |-> "panel.txt" ]

\* d without the key path[1] (path of length 1) or without d[path[1]][path[2]]
Without(d, path) ==
    IF Len(path) = 1
    THEN [k \in DOMAIN d \ {path[1]} |-> d[k]]
    ELSE [k \in DOMAIN d |->
            IF k = path[1]
            THEN [j \in DOMAIN d[k] \ {path[2]} |-> d[k][j]]
            ELSE d[k]]

\* The keys that are left out of a configuration, one at a time.
MissingPaths ==
    { <<"gatk">>, <<"gatk", "max_mem">>, <<"gatk", "bin">>, <<"reference">>,
      <<"regions">>, <<"dbsnp">>, <<"indel2">>, <<"coverage_threshold">>,
      <<"snpeff">>, <<"snpeff", "reference">>, <<"gemini", "num_cores">>,
      <<"vcfanno", "conf">>, <<"picard">>, <<"platypus_regions">> }

CompleteConfigs ==
    { FullConfig(r, sr) : r \in References, sr \in SnpeffReferences }

DefectiveConfigs ==
    { Without(FullConfig("hg19.fa", "GRCh37"), p) : p \in MissingPaths }

Configs == CompleteConfigs \cup DefectiveConfigs

\* The strings of the command tuples that contain an apostrophe: the filter
\* expressions and names of filter_variants and str(config['gatk']).
WithApostrophe ==
    { "'MQ0 > 50'", "'HighMQ0'", "'LowDepth'", "'QUAL < 10'", "'LowQual'",
      "'MQ < 10'", "'LowMappingQual'" }
    \cup { Fmt("'DP < ", GetI(c, "coverage_threshold"), "'") :
             c \in { x \in Configs : "coverage_threshold" \in DOMAIN x } }
    \cup { GetD(c, "gatk") : c \in { x \in Configs : "gatk" \in DOMAIN x } }

\* repr(s) of a string
\* (double quotes when the string contains an apostrophe)
ReprStr(s) == IF s \in WithApostrophe THEN "\"" \o s \o "\"" ELSE "'" \o s \o "'"

\* repr(t) of a tuple of strings, which is what "{}".format(t) prints
ReprTuple(t) ==
    IF Len(t) = 1 THEN "(" \o ReprStr(t[1]) \o ",)"
    ELSE "(" \o Join([i \in DOMAIN t |-> ReprStr(t[i])], ", ") \o ")"

----------------------------------------------------------------------------
(* The statements of a stage function.  Assignments that read no dict     *)
(* cannot raise and are folded into the statements that use their values.  *)

\* an assignment whose right-hand side reads the configuration
Eval(values) == [op |-> "eval", argv |-> values, text |-> ""]

\* job.fileStore.logToMaster("<prefix>{}\n".format(command))
LogCommand(prefix, command) == [op |-> "log", argv |-> command, text |-> prefix]

\* job.fileStore.logToMaster(message)
LogLine(message) == [op |-> "logline", argv |-> <<>>, text |-> message]

\* pipeline.run_and_log_command(" ".join(command), logfile)
RunCommand(command, logfile) == [op |-> "run", argv |-> command, text |-> logfile]

\* utilities.touch(path)
Touch(path) == [op |-> "touch", argv |-> <<>>, text |-> path]

\* time.sleep(seconds)
Sleep == [op |-> "sleep", argv |-> <<>>, text |-> ""]

\* return value
Return(value) == [op |-> "return", argv |-> <<>>, text |-> value]

----------------------------------------------------------------------------
(* ddb_ngsflow/annotation.py                                               *)

\* "{}.snpEff.{}.vcf".format(config['snpeff']['reference'], sample): the two
\* arguments of format in the wrong order
snpeff_output_vcf_swapped(config, sample) ==
    Fmt2("", GetS(Sub(config, "snpeff"), "reference"), ".snpEff.", sample, ".vcf")

\* "{}.snpEff.vcf".format(sample): the reference left out of the name
snpeff_output_vcf_noref(config, sample) ==
    Fmt2("", sample, ".snpEff", "", ".vcf")

\* output_vcf of snpeff
snpeff_output_vcf(config, sample) ==
    Fmt2("", sample, ".snpEff.", GetS(Sub(config, "snpeff"), "reference"), ".vcf")

snpeff(config, sample, input_vcf) ==
    LET output_vcf == snpeff_output_vcf(config, sample)
        logfile == sample \o ".snpeff.log"
        \* ">" and the output name are adjacent string literals: one element
        snpeff_command ==
            << GetS(Sub(config, "snpeff"), "bin"),
               Fmt("-Xmx", GetI(Sub(config, "snpeff"), "max_mem"), "g"),
               "-v",
               GetS(Sub(config, "snpeff"), "reference"),
               input_vcf,
               Fmt(">", output_vcf, "") >>
    IN  << Eval(<<output_vcf>>),
           Eval(snpeff_command),
           LogCommand("snpEff Command: ", snpeff_command),
           RunCommand(snpeff_command, logfile),
           Return(output_vcf) >>

gemini(config, sample, input_vcf) ==
    LET db == Fmt2("", sample, ".snpEff.",
                   GetS(Sub(config, "snpeff"), "reference"), ".db")
        logfile == sample \o ".gemini.log"
        command ==
            << GetS(Sub(config, "gemini"), "bin"),
               "load",
               "--cores",
               GetI(Sub(config, "gemini"), "num_cores"),
               "--save-info-string",
               "-v",
               input_vcf,
               "-t",
               "snpEff",
               db >>
    IN  << Eval(<<db>>),
           Eval(command),
           LogCommand("GEMINI Command: ", command),
           RunCommand(command, logfile),
           Return(db) >>

vcfanno(config, sample, input_vcf) ==
    LET output_vcf == Fmt2("", sample, ".vcfanno.snpEff.",
                           GetS(Sub(config, "snpeff"), "reference"), ".vcf")
        logfile == sample \o ".vcfanno.log"
        command ==
            << GetS(Sub(config, "vcfanno"), "bin"),
               "-p",
               GetI(Sub(config, "vcfanno"), "num_cores"),
               "--lua",
               GetS(Sub(config, "vcfanno"), "lua"),
               GetS(Sub(config, "vcfanno"), "conf"),
               input_vcf,
               ">",
               output_vcf >>
    IN  << Eval(<<output_vcf>>),
           Eval(command),
           LogCommand("GEMINI Command: ", command),
           RunCommand(command, logfile),
           Return(output_vcf) >>

----------------------------------------------------------------------------
(* ngsflow/variation/platypus.py                                           *)

\* cpu is multiprocessing.cpu_count()
platypus_single(config, sample, input_bam, cpu) ==
    LET platypus_vcf == sample \o ".platypus.vcf"
        platypus_log == sample \o ".platypus.log"
        internal_log == sample \o ".platypus_internal.log"
        platypus_command ==
            << GetS(config, "platypus"),
               "callVariants",
               Fmt("--refFile=", GetS(config, "reference"), ""),
               Fmt("--regions=", GetS(config, "platypus_regions"), ""),
               "--assemble=1",
               "--assembleBrokenPairs=1",
               "--filterDuplicates=0",
               "--nCPU=" \o ToString(cpu),
               "--logFileName=" \o internal_log,
               "--bamFiles=" \o input_bam,
               "--output=" \o platypus_vcf >>
    \* the run_and_log_command call is commented out in the source
    IN  << Eval(platypus_command),
           LogCommand("Platypus Command: ", platypus_command),
           Sleep,
           Return(platypus_vcf) >>

----------------------------------------------------------------------------
(* ngsflow/gatk.py                                                         *)

diagnosetargets(config, sample, input_bam) ==
    LET diagnose_targets_vcf == sample \o ".diagnosetargets.vcf"
        missing_intervals == sample \o ".missing.intervals"
        logfile == sample \o ".diagnose_targets.log"
        command ==
            << "java",
               "-Xmx" \o ToString(2) \o "g",
               "-jar",
               GetS(Sub(config, "gatk"), "bin"),
               "-T",
               "DiagnoseTargets",
               "-R",
               GetS(config, "reference"),
               "-L",
               GetS(config, "regions"),
               "--coverage_status_threshold",
               GetI(config, "coverage_loci_threshold"),
               "--bad_mate_status_threshold",
               GetI(config, "bad_mate_threshold"),
               "--minimum_coverage",
               GetI(config, "coverage_threshold"),
               "--quality_status_threshold",
               GetI(config, "quality_loci_threshold"),
               "-I",
               input_bam,
               "-o",
               diagnose_targets_vcf,
               "--missing_intervals",
               missing_intervals >>
    IN  << Eval(command),
           LogCommand("GATK DiagnoseTargets Command: ", command),
           RunCommand(command, logfile),
           Return(diagnose_targets_vcf) >>

annotate_vcf(config, sample, input_vcf, input_bam, num_threads) ==
    LET output_vcf == sample \o ".annotated.vcf"
        annotation_logfile == sample \o ".variantannotation.log"
        annotation_command ==
            << "java",
               Fmt("-Xmx", GetI(Sub(config, "gatk"), "max_mem"), "g"),
               "-jar",
               GetS(Sub(config, "gatk"), "bin"),
               "-T",
               "VariantAnnotator",
               "-R",
               GetS(config, "reference"),
               "-nt",
               ToString(num_threads),
               "--group",
               "StandardAnnotation",
               "--dbsnp",
               GetS(config, "dbsnp"),
               "-I",
               input_bam,
               "--variant",
               input_vcf,
               "-L",
               input_vcf,
               "-o",
               output_vcf >>
    IN  << Eval(annotation_command),
           LogCommand("GATK VariantAnnotator Command: ", annotation_command),
           RunCommand(annotation_command, annotation_logfile),
           Return(output_vcf) >>

filter_variants(config, sample, input_vcf) ==
    LET output_vcf == sample \o ".filtered.vcf"
        filter_log == sample \o ".variantfiltration.log"
        filter_command ==
            << "java",
               Fmt("-Xmx", GetI(Sub(config, "gatk"), "max_mem"), "g"),
               "-jar",
               GetS(Sub(config, "gatk"), "bin"),
               "-T",
               "VariantFiltration",
               "-R",
               GetS(config, "reference"),
               "--filterExpression",
               "'MQ0 > 50'",
               "--filterName",
               "'HighMQ0'",
               "--filterExpression",
               Fmt("'DP < ", GetI(config, "coverage_threshold"), "'"),
               "--filterName",
               "'LowDepth'",
               "--filterExpression",
               "'QUAL < 10'",
               "--filterName",
               "'LowQual'",
               "--filterExpression",
               "'MQ < 10'",
               "--filterName",
               "'LowMappingQual'",
               "--variant",
               input_vcf,
               "-o",
               output_vcf >>
    IN  << Eval(filter_command),
           LogCommand("GATK VariantFiltration Command: ", filter_command),
           RunCommand(filter_command, filter_log),
           Return(output_vcf) >>

add_or_replace_readgroups(config, sample, input_bam) ==
    LET output_bam == sample \o ".rg.sorted.bam"
        logfile == sample \o ".addreadgroups.log"
        index_log == sample \o ".buildindex.log"
        command ==
            << "java",
               Fmt("-Xmx", GetI(Sub(config, "gatk"), "max_mem"), "g"),
               "-jar",
               GetS(config, "picard"),
               "AddOrReplaceReadGroups",
               "INPUT=" \o input_bam,
               "OUTPUT=" \o output_bam,
               "RGID=" \o sample,
               "RGSM=" \o sample,
               "RGLB=" \o sample,
               "RGPL=illumina",
               "RGPU=miseq" >>
        command2 ==
            << "java",
               Fmt("-Xmx", GetI(Sub(config, "gatk"), "max_mem"), "g"),
               "-jar",
               GetS(config, "picard"),
               "BuildBamIndex",
               "INPUT=" \o output_bam >>
    IN  << LogLine("Running AddOrReplaceReadGroups in sample: " \o sample),
           Eval(command),
           Eval(command2),
           LogCommand("GATK AddOrReplaceReadGroupsCommand Command: ", command),
           RunCommand(command, logfile),
           LogCommand("GATK BuildBamIndex Command: ", command2),
           RunCommand(command2, index_log),
           Return(output_bam) >>

realign_target_creator(config, sample, input_bam) ==
    LET targets == sample \o ".targets.intervals"
        targets_log == sample \o ".targetcreation.log"
        command ==
            << "java",
               Fmt("-Xmx", GetI(Sub(config, "gatk"), "max_mem"), "g"),
               "-jar",
               GetD(config, "gatk"),
               "-T",
               "IndelRealigner",
               "-R",
               GetS(config, "reference"),
               "-I",
               input_bam,
               "-o",
               targets,
               "-known",
               GetS(config, "indel1"),
               "-known",
               GetS(config, "indel2"),
               "-targetIntervals",
               targets,
               "--read_filter",
               "NotPrimaryAlignment" >>
    IN  << Eval(command),
           LogCommand("GATK RealignerTargetCreator Command: ", command),
           RunCommand(command, targets_log),
           Return(targets) >>

\* cpu is multiprocessing.cpu_count()
realign_indels(config, sample, input_bam, targets, cpu) ==
    LET output_bam == sample \o ".realigned.sorted.bam"
        realign_log == sample \o ".realignindels.log"
        command ==
            << "java",
               Fmt("-Xmx", GetI(Sub(config, "gatk"), "max_mem"), "g"),
               "-jar",
               GetD(config, "gatk"),
               "-T",
               "RealignerTargetCreator",
               "-R",
               GetS(config, "reference"),
               "-I",
               input_bam,
               "-o",
               targets,
               "-known",
               GetS(config, "indel1"),
               "-known",
               GetS(config, "indel2"),
               "-nt",
               ToString(cpu) >>
    IN  << Eval(command),
           LogCommand("GATK IndelRealigner Command: ", command),
           Touch(output_bam),
           RunCommand(command, realign_log),
           Return(output_bam) >>

\* The reads printed before the covariates are calculated.
recalibrator_invocations_swapped(sample, recal_commands, print_reads_command, cp_command, output_bam) ==
    << LogCommand("GATK PrintReads Command: ", print_reads_command),
       RunCommand(print_reads_command, sample \o ".printrecalibrated.log"),
       LogCommand("GATK BaseRecalibrator Command: ", recal_commands),
       RunCommand(recal_commands, sample \o ".recalibrate.log"),
       LogCommand("GATK Copy Command: ", cp_command),
       RunCommand(cp_command, sample \o ".copy.log"),
       Return(output_bam) >>

\* The logToMaster / run_and_log_command statements that end recalibrator.
recalibrator_invocations(sample, recal_commands, print_reads_command, cp_command, output_bam) ==
    LET recal_log == sample \o ".recalibrate.log"
        print_log == sample \o ".printrecalibrated.log"
        cp_log == sample \o ".copy.log"
    IN  << LogCommand("GATK BaseRecalibrator Command: ", recal_commands),
           RunCommand(recal_commands, recal_log),
           LogCommand("GATK PrintReads Command: ", print_reads_command),
           RunCommand(print_reads_command, print_log),
           LogCommand("GATK Copy Command: ", cp_command),
           RunCommand(cp_command, cp_log),
           Return(output_bam) >>

\* cpu is multiprocessing.cpu_count()
recalibrator(config, sample, input_bam, cpu) ==
    LET output_bam == sample \o ".recalibrated.sorted.bam"
        recal_config == sample \o ".recal"
        recal_commands ==
            << "java",
               Fmt("-Xmx", GetI(Sub(config, "gatk"), "max_mem"), "g"),
               "-jar",
               GetD(config, "gatk"),
               "-T",
               "BaseRecalibrator",
               "-R",
               GetS(config, "reference"),
               "-I",
               input_bam,
               "-o",
               recal_config,
               "--knownSites",
               GetS(config, "dbsnp"),
               "-nct",
               ToString(cpu) >>
        print_reads_command ==
            << "java",
               Fmt("-Xmx", GetI(Sub(config, "gatk"), "max_mem"), "g"),
               "-jar",
               GetD(config, "gatk"),
               "-T",
               "PrintReads",
               "-R",
               GetS(config, "reference"),
               "-I",
               input_bam,
               "-o",
               output_bam,
               "-BQSR",
               recal_config,
               "-nct",
               ToString(cpu) >>
        cp_command ==
            << "cp",
               sample \o ".recalibrated.sorted.bai",
               sample \o ".recalibrated.sorted.bam.bai" >>
    IN  << Eval(recal_commands), Eval(print_reads_command) >>
        \o recalibrator_invocations(sample, recal_commands, print_reads_command,
                                    cp_command, output_bam)

\* d[k] = v on a dict
Put(d, k, v) == [x \in DOMAIN d \cup {k} |-> IF x = k THEN v ELSE d[x]]

\* The loop body without its last statement: working_bam is not moved on to
\* the deduplicated file.
MarkDuplicatesPass_keeps_working_bam(sample, tool_config) ==
    LET logfile == sample["name"] \o ".markduplicates.log"
        s1 == IF "bam" \in DOMAIN sample
              THEN Put(sample, "sorted_bam", sample["bam"]) ELSE sample
        s2 == Put(s1, "dedup_bam", sample["name"] \o ".dedup.sorted.bam")
        metrics == sample["name"] \o ".dedup.metrics"
        max_mem == GetI(Sub(tool_config, "gatk"), "max_mem")
        bin == GetS(Sub(tool_config, "picard"), "bin")
        working_bam == GetS(s2, "working_bam")
        raised == HasKeyError(<<max_mem, bin, working_bam>>)
        command == "java -Xmx" \o max_mem \o "g -jar " \o bin
                   \o " MarkDuplicates CREATE_INDEX=true INPUT=" \o working_bam
                   \o " OUTPUT=" \o s2["dedup_bam"] \o " METRICS_FILE=" \o metrics
                   \o " VALIDATION_STRINGENCY=LENIENT"
    IN  IF raised
        THEN [sample |-> s2, appended |-> <<>>, raised |-> TRUE]
        ELSE [sample |-> s2, appended |-> << <<command, logfile>> >>, raised |-> FALSE]

\* One pass of the loop body of run_mark_duplicates over a sample record:
\* the record as the pass leaves it, the instruction it appended, and
\* whether building the command raised KeyError.
MarkDuplicatesPass(sample, tool_config) ==
    LET logfile == sample["name"] \o ".markduplicates.log"
        s1 == IF "bam" \in DOMAIN sample
              THEN Put(sample, "sorted_bam", sample["bam"]) ELSE sample
        s2 == Put(s1, "dedup_bam", sample["name"] \o ".dedup.sorted.bam")
        metrics == sample["name"] \o ".dedup.metrics"
        max_mem == GetI(Sub(tool_config, "gatk"), "max_mem")
        bin == GetS(Sub(tool_config, "picard"), "bin")
        working_bam == GetS(s2, "working_bam")
        raised == HasKeyError(<<max_mem, bin, working_bam>>)
        command == "java -Xmx" \o max_mem \o "g -jar " \o bin
                   \o " MarkDuplicates CREATE_INDEX=true INPUT=" \o working_bam
                   \o " OUTPUT=" \o s2["dedup_bam"] \o " METRICS_FILE=" \o metrics
                   \o " VALIDATION_STRINGENCY=LENIENT"
    IN  IF raised
        THEN [sample |-> s2, appended |-> <<>>, raised |-> TRUE]
        ELSE [sample |-> Put(s2, "working_bam", s2["dedup_bam"]),
              appended |-> << <<command, logfile>> >>,
              raised |-> FALSE]

RECURSIVE MarkDuplicatesLoop(_, _, _, _)
\* The for loop of run_mark_duplicates from record i on; an exception ends it.
MarkDuplicatesLoop(samples, i, built, tool_config) ==
    IF i > Len(samples)
    THEN [samples |-> samples, instructions |-> built, raised |-> FALSE]
    ELSE LET pass == MarkDuplicatesPass(samples[i], tool_config)
             after == [samples EXCEPT ![i] = pass.sample]
         IN  IF pass.raised
             THEN [samples |-> after, instructions |-> built, raised |-> TRUE]
             ELSE MarkDuplicatesLoop(after, i + 1, built \o pass.appended, tool_config)

\* The call: the sample records and the instruction list as the loop leaves
\* them, and the three configuration dicts, which no statement assigns to
\* (project_config and resource_config are not even read).
run_mark_duplicates(project_config, samples, tool_config, resource_config) ==
    LET loop == MarkDuplicatesLoop(samples, 1, <<>>, tool_config)
    IN  [ samples |-> loop.samples, instructions |-> loop.instructions,
          raised |-> loop.raised, project_config |-> project_config,
          tool_config |-> tool_config, resource_config |-> resource_config ]

ToolConfigs ==
    { [gatk |-> [max_mem |-> 4], picard |-> [bin |-> "/opt/picard.jar"]],
      [gatk |-> [max_mem |-> 4]] }

\* The three configuration dicts a caller passes to run_mark_duplicates.
CallerConfigs ==
    { [ project_config |-> [project |-> "panel", reference |-> "hg19.fa"],
        tool_config |-> t,
        resource_config |-> [cores |-> "2", walltime |-> "24h"] ] : t \in ToolConfigs }

InitialSampleConfigs ==
    { << [name |-> "S1", bam |-> "S1.bam", working_bam |-> "S1.sorted.bam"],
         [name |-> "S2", working_bam |-> "S2.sorted.bam"] >>,
      << [name |-> "S1", working_bam |-> "S1.sorted.bam"],
         [name |-> "S2", bam |-> "S2.bam"] >> }

----------------------------------------------------------------------------
(* Calls.                                                                  *)

JobStages ==
    { "snpeff", "gemini", "vcfanno", "platypus_single", "diagnosetargets",
      "annotate_vcf", "filter_variants", "add_or_replace_readgroups",
      "realign_target_creator", "realign_indels", "recalibrator" }

\* The arguments of a call; an argument the stage does not take is "" or 0.
NewCall(stage, config, sample, input_bam, input_vcf, targets, num_threads) ==
    [ stage |-> stage, config |-> config, sample |-> sample, input_bam |-> input_bam,
      input_vcf |-> input_vcf, targets |-> targets, num_threads |-> num_threads ]

NoCall == NewCall("", NoDict, "", "", "", "", 0)

\* The calls in which each stage gets the arguments of its signature.
Calls ==
    { NewCall(st, c, s, "", v, "", 0) :
        st \in {"snpeff", "gemini", "vcfanno", "filter_variants"},
        c \in Configs, s \in Samples, v \in InputVcfs }
    \cup
    { NewCall(st, c, s, b, "", "", 0) :
        st \in {"platypus_single", "diagnosetargets", "add_or_replace_readgroups",
                "realign_target_creator", "recalibrator"},
        c \in Configs, s \in Samples, b \in InputBams }
    \cup
    { NewCall("realign_indels", c, s, b, "", t, 0) :
        c \in Configs, s \in Samples, b \in InputBams, t \in TargetFiles }
    \cup
    { NewCall("annotate_vcf", c, s, b, v, "", n) :
        c \in Configs, s \in Samples, b \in InputBams, v \in InputVcfs,
        n \in 1..MaxThreads }

\* The statements of the called stage function, on a machine with cpu CPUs.
Program(c, cpu) ==
    CASE c.stage = "snpeff" -> snpeff(c.config, c.sample, c.input_vcf)
      [] c.stage = "gemini" -> gemini(c.config, c.sample, c.input_vcf)
      [] c.stage = "vcfanno" -> vcfanno(c.config, c.sample, c.input_vcf)
      [] c.stage = "platypus_single" ->
            platypus_single(c.config, c.sample, c.input_bam, cpu)
      [] c.stage = "diagnosetargets" -> diagnosetargets(c.config, c.sample, c.input_bam)
      [] c.stage = "annotate_vcf" ->
            annotate_vcf(c.config, c.sample, c.input_vcf, c.input_bam, c.num_threads)
      [] c.stage = "filter_variants" -> filter_variants(c.config, c.sample, c.input_vcf)
      [] c.stage = "add_or_replace_readgroups" ->
            add_or_replace_readgroups(c.config, c.sample, c.input_bam)
      [] c.stage = "realign_target_creator" ->
            realign_target_creator(c.config, c.sample, c.input_bam)
      [] c.stage = "realign_indels" ->
            realign_indels(c.config, c.sample, c.input_bam, c.targets, cpu)
      [] c.stage = "recalibrator" -> recalibrator(c.config, c.sample, c.input_bam, cpu)
      [] OTHER -> <<>>

----------------------------------------------------------------------------
(* What a call leaves behind.                                              *)

\* a line of the master log: job.fileStore.logToMaster(text)
LogEvent(text, command) ==
    [ev |-> "log", text |-> text, logfile |-> "", status |-> 0, argv |-> command]

\* The execution helper pipeline.run_and_log_command(command, logfile): the
\* shell runs the command line, the transcript goes to logfile, and the
\* helper comes back whatever the exit status of the command was.
run_and_log_command(command, logfile, status, argv) ==
    [ev |-> "run", text |-> command, logfile |-> logfile, status |-> status,
     argv |-> argv]

TouchEvent(path) ==
    [ev |-> "touch", text |-> path, logfile |-> "", status |-> 0, argv |-> <<>>]

StdoutEvent(text) ==
    [ev |-> "stdout", text |-> text, logfile |-> "", status |-> 0, argv |-> <<>>]

NoResult == [kind |-> "none", value |-> ""]
Returned(value) == [kind |-> "return", value |-> value]
Raised(exception) == [kind |-> "raise", value |-> exception]

\* The thread count taken from the machine instead of the num_threads argument.
Stmt_threads_from_machine ==
    Program([call EXCEPT !.num_threads = cpu_count], cpu_count)[pc]

\* The statement the running call is at.
Stmt == Program(call, cpu_count)[pc]

\* A stage that checks the exit status and raises on failure.
AfterRun_checked(status) ==
    IF status /= 0
    THEN [pc |-> 0, result |-> Raised("RuntimeError")]
    ELSE [pc |-> pc + 1, result |-> NoResult]

\* What the stage does with the exit status the helper reports: nothing, the
\* next statement follows (the return value of the helper is dropped).
AfterRun(status) == [pc |-> pc + 1, result |-> NoResult]

----------------------------------------------------------------------------
(* Actions.                                                                *)

Init ==
    /\ pc = 0
    /\ call = NoCall
    /\ cpu_count \in 1..MaxCpu
    /\ trace = <<>>
    /\ result = NoResult
    /\ sample_config \in InitialSampleConfigs
    /\ instructions = <<>>
    /\ caller_configs \in CallerConfigs

\* The workflow engine calls a stage function.
CallStage ==
    /\ pc = 0
    /\ result = NoResult
    /\ \E c \in Calls : call' = c
    /\ pc' = 1
    /\ trace' = <<>>
    /\ result' = NoResult
    /\ UNCHANGED <<cpu_count, sample_config, instructions, caller_configs>>

\* An assignment that reads the configuration: a missing key raises KeyError.
EvalStmt ==
    /\ pc > 0
    /\ Stmt.op = "eval"
    /\ IF HasKeyError(Stmt.argv)
       THEN /\ result' = Raised("KeyError")
            /\ pc' = 0
       ELSE /\ pc' = pc + 1
            /\ UNCHANGED result
    /\ UNCHANGED <<call, cpu_count, trace, sample_config, instructions, caller_configs>>

\* job.fileStore.logToMaster of a command tuple, or of a plain message
LogToMaster ==
    /\ pc > 0
    /\ Stmt.op \in {"log", "logline"}
    /\ trace' = Append(trace,
                  IF Stmt.op = "log"
                  THEN LogEvent(Stmt.text \o ReprTuple(Stmt.argv) \o "\n", Stmt.argv)
                  ELSE LogEvent(Stmt.text, <<>>))
    /\ pc' = pc + 1
    /\ UNCHANGED <<call, cpu_count, result, sample_config, instructions, caller_configs>>

\* pipeline.run_and_log_command(" ".join(command), logfile)
RunAndLogCommand ==
    /\ pc > 0
    /\ Stmt.op = "run"
    /\ \E status \in ExitStatuses :
         /\ trace' = Append(trace,
                       run_and_log_command(Join(Stmt.argv, " "), Stmt.text, status,
                                           Stmt.argv))
         /\ pc' = AfterRun(status).pc
         /\ result' = AfterRun(status).result
    /\ UNCHANGED <<call, cpu_count, sample_config, instructions, caller_configs>>

\* utilities.touch(path)
TouchFile ==
    /\ pc > 0
    /\ Stmt.op = "touch"
    /\ trace' = Append(trace, TouchEvent(Stmt.text))
    /\ pc' = pc + 1
    /\ UNCHANGED <<call, cpu_count, result, sample_config, instructions, caller_configs>>

\* time.sleep(2)
SleepStmt ==
    /\ pc > 0
    /\ Stmt.op = "sleep"
    /\ pc' = pc + 1
    /\ UNCHANGED <<call, cpu_count, trace, result, sample_config, instructions, caller_configs>>

\* return <artifact path>
ReturnStmt ==
    /\ pc > 0
    /\ Stmt.op = "return"
    /\ result' = Returned(Stmt.text)
    /\ pc' = 0
    /\ UNCHANGED <<call, cpu_count, trace, sample_config, instructions, caller_configs>>

\* run_mark_duplicates(project_config, sample_config, tool_config, resource_config)
RunMarkDuplicates ==
    /\ pc = 0
    /\ result = NoResult
    /\ LET out == run_mark_duplicates(caller_configs.project_config, sample_config,
                                      caller_configs.tool_config,
                                      caller_configs.resource_config)
       IN  /\ call' = NewCall("run_mark_duplicates", caller_configs.tool_config,
                              "", "", "", "", 0)
           /\ sample_config' = out.samples
           /\ instructions' = out.instructions
           /\ caller_configs' = [ project_config |-> out.project_config,
                                  tool_config |-> out.tool_config,
                                  resource_config |-> out.resource_config ]
           /\ result' = IF out.raised THEN Raised("KeyError") ELSE Returned("None")
    /\ trace' = <<StdoutEvent("Running MarkDuplicates\n")>>
    /\ pc' = 0
    /\ UNCHANGED cpu_count

\* The caller takes what the call returned or raised; the next call can start.
TakeResult ==
    /\ pc = 0
    /\ result /= NoResult
    /\ call' = NoCall
    /\ trace' = <<>>
    /\ result' = NoResult
    /\ UNCHANGED <<pc, cpu_count, sample_config, instructions, caller_configs>>

\* The stage functions are called on machines with different numbers of CPUs.
ChangeMachine ==
    /\ pc = 0
    /\ result = NoResult
    /\ \E n \in 1..MaxCpu : cpu_count' = n
    /\ cpu_count' /= cpu_count
    /\ UNCHANGED <<pc, call, trace, result, sample_config, instructions, caller_configs>>

Next ==
    \/ CallStage
    \/ EvalStmt
    \/ LogToMaster
    \/ RunAndLogCommand
    \/ TouchFile
    \/ SleepStmt
    \/ ReturnStmt
    \/ RunMarkDuplicates
    \/ TakeResult
    \/ ChangeMachine

Spec == Init /\ [][Next]_vars

----------------------------------------------------------------------------
(* run_mark_duplicates called again and again on the same sample records.  *)

MaxRecords == 2

\* A sample record: a name, and a 'bam', a 'working_bam' or both.
SampleRecords ==
    UNION { { [name |-> n, working_bam |-> n \o ".sorted.bam"],
              [name |-> n, bam |-> n \o ".bam", working_bam |-> n \o ".sorted.bam"],
              [name |-> n, bam |-> n \o ".bam"] } : n \in Samples }

SampleLists == UNION { [1..n -> SampleRecords] : n \in 0..MaxRecords }

InitMarkDuplicates ==
    /\ pc = 0
    /\ call = NoCall
    /\ cpu_count = 1
    /\ trace = <<>>
    /\ result = NoResult
    /\ sample_config \in SampleLists
    /\ instructions = <<>>
    /\ caller_configs \in CallerConfigs

NextMarkDuplicates ==
    \/ RunMarkDuplicates
    \/ TakeResult

SpecMarkDuplicates == InitMarkDuplicates /\ [][NextMarkDuplicates]_vars

----------------------------------------------------------------------------
(* Reading the trace of a call.                                            *)

\* the external invocations of the call, in order
Runs == SelectSeq(trace, LAMBDA e : e.ev = "run")

\* the command tuples written to the master log, in order
LoggedCommands == SelectSeq(trace, LAMBDA e : e.ev = "log" /\ e.argv /= <<>>)

\* the argument that follows the first occurrence of flag in argv, "" if none
ArgAfter(argv, flag) ==
    IF \E i \in 1..(Len(argv) - 1) : argv[i] = flag
    THEN argv[(CHOOSE i \in 1..(Len(argv) - 1) :
                 /\ argv[i] = flag
                 /\ \A j \in 1..(i - 1) : argv[j] /= flag) + 1]
    ELSE ""

StageReturned(stage) == pc = 0 /\ call.stage = stage /\ result.kind = "return"

----------------------------------------------------------------------------
(* C1 *)

\* C1 as stated: when recalibrator returns it has made exactly two external
\* invocations, BaseRecalibrator then PrintReads, and the -BQSR argument of
\* PrintReads is the -o argument of BaseRecalibrator, '{sample}.recal'.
C1_ExactlyTwoInvocations ==
    StageReturned("recalibrator") =>
        /\ Len(Runs) = 2
        /\ ArgAfter(Runs[1].argv, "-T") = "BaseRecalibrator"
        /\ ArgAfter(Runs[2].argv, "-T") = "PrintReads"
        /\ ArgAfter(Runs[2].argv, "-BQSR") = ArgAfter(Runs[1].argv, "-o")
        /\ ArgAfter(Runs[1].argv, "-o") = call.sample \o ".recal"

\* C1 amended: when recalibrator returns it has made exactly three external
\* invocations, BaseRecalibrator, then PrintReads, then a cp of the index
\* file, and the -BQSR argument of PrintReads is the -o argument of
\* BaseRecalibrator, '{sample}.recal'.
C1_ThreeInvocations ==
    StageReturned("recalibrator") =>
        /\ Len(Runs) = 3
        /\ ArgAfter(Runs[1].argv, "-T") = "BaseRecalibrator"
        /\ ArgAfter(Runs[2].argv, "-T") = "PrintReads"
        /\ Runs[3].argv = << "cp", call.sample \o ".recalibrated.sorted.bai",
                             call.sample \o ".recalibrated.sorted.bam.bai" >>
        /\ ArgAfter(Runs[2].argv, "-BQSR") = ArgAfter(Runs[1].argv, "-o")
        /\ ArgAfter(Runs[1].argv, "-o") = call.sample \o ".recal"
        /\ \A i \in 1..3 : Runs[i].text = Join(Runs[i].argv, " ")

C1_Witness ==
    /\ StageReturned("recalibrator")
    /\ Len(Runs) = 3
    /\ ArgAfter(Runs[2].argv, "-BQSR") = "S1.recal"

----------------------------------------------------------------------------
(* C2 *)

\* The conventional artifact name of a stage, spelled from the sample
\* identifier and (for snpeff) the snpEff reference name alone.
ConventionalName(c) ==
    CASE c.stage = "snpeff" ->
            c.sample \o ".snpEff." \o c.config["snpeff"]["reference"] \o ".vcf"
      [] c.stage = "realign_indels" -> c.sample \o ".realigned.sorted.bam"
      [] c.stage = "recalibrator" -> c.sample \o ".recalibrated.sorted.bam"
      [] c.stage = "platypus_single" -> c.sample \o ".platypus.vcf"
      [] c.stage = "annotate_vcf" -> c.sample \o ".annotated.vcf"
      [] c.stage = "filter_variants" -> c.sample \o ".filtered.vcf"
      [] c.stage = "diagnosetargets" -> c.sample \o ".diagnosetargets.vcf"

C2_Stages ==
    { "snpeff", "realign_indels", "recalibrator", "platypus_single", "annotate_vcf",
      "filter_variants", "diagnosetargets" }

\* C2: whenever one of the stages snpeff, realign_indels, recalibrator,
\* platypus_single, annotate_vcf, filter_variants, diagnosetargets returns, on
\* any machine and after any earlier calls, the value returned is exactly its
\* conventional artifact name, which the sample identifier and the
\* configuration determine (so that a second call with the same inputs returns
\* the same name); and when run_mark_duplicates returns, every sample record
\* holds dedup_bam = '{name}.dedup.sorted.bam'.
C2_ConventionalNames ==
    /\ \A st \in C2_Stages :
         StageReturned(st) => result.value = ConventionalName(call)
    /\ StageReturned("run_mark_duplicates") =>
         \A i \in DOMAIN sample_config :
            /\ "dedup_bam" \in DOMAIN sample_config[i]
            /\ sample_config[i]["dedup_bam"]
                 = sample_config[i]["name"] \o ".dedup.sorted.bam"

C2_Witness ==
    /\ StageReturned("snpeff")
    /\ call.sample = "S1"
    /\ call.config["snpeff"]["reference"] = "GRCh37"
    /\ result.value = "S1.snpEff.GRCh37.vcf"
    /\ Runs[1].logfile = "S1.snpeff.log"

----------------------------------------------------------------------------
(* C3 *)

\* the master-log lines that carry a command and the executions, in order
CommandEvents ==
    SelectSeq(trace, LAMBDA e : e.ev = "run" \/ (e.ev = "log" /\ e.argv /= <<>>))

LogTags ==
    { "snpeff", "gemini", "vcfanno", "platypus", "diagnose_targets",
      "variantannotation", "variantfiltration", "addreadgroups", "buildindex",
      "targetcreation", "realignindels", "recalibrate", "printrecalibrated", "copy" }

\* C3 as stated: every execution comes right after the master-log line of the
\* same command and uses a log file '{sample}.{stage}.log', so no command is
\* executed without having been logged; and when the stage returns every
\* command written to the master log has been executed right after its line.
C3_LoggedThenExecuted ==
    LET ev == CommandEvents
    IN  /\ \A i \in DOMAIN ev :
              ev[i].ev = "run" =>
                 /\ i > 1
                 /\ ev[i - 1].ev = "log"
                 /\ ev[i - 1].argv = ev[i].argv
                 /\ \E tag \in LogTags :
                       ev[i].logfile = call.sample \o "." \o tag \o ".log"
        /\ (pc = 0 /\ result.kind = "return") =>
              \A i \in DOMAIN ev :
                 ev[i].ev = "log" =>
                    /\ i < Len(ev)
                    /\ ev[i + 1].ev = "run"
                    /\ ev[i + 1].argv = ev[i].argv

----------------------------------------------------------------------------
(* C4 *)

\* The configuration keys each stage function reads, from its source text.
KeysRead(stage) ==
    CASE stage = "snpeff" ->
            { <<"snpeff", "reference">>, <<"snpeff", "bin">>, <<"snpeff", "max_mem">> }
      [] stage = "gemini" ->
            { <<"snpeff", "reference">>, <<"gemini", "bin">>, <<"gemini", "num_cores">> }
      [] stage = "vcfanno" ->
            { <<"snpeff", "reference">>, <<"vcfanno", "bin">>, <<"vcfanno", "num_cores">>,
              <<"vcfanno", "lua">>, <<"vcfanno", "conf">> }
      [] stage = "platypus_single" ->
            { <<"platypus">>, <<"reference">>, <<"platypus_regions">> }
      [] stage = "diagnosetargets" ->
            { <<"gatk", "bin">>, <<"reference">>, <<"regions">>,
              <<"coverage_loci_threshold">>, <<"bad_mate_threshold">>,
              <<"coverage_threshold">>, <<"quality_loci_threshold">> }
      [] stage = "annotate_vcf" ->
            { <<"gatk", "max_mem">>, <<"gatk", "bin">>, <<"reference">>, <<"dbsnp">> }
      [] stage = "filter_variants" ->
            { <<"gatk", "max_mem">>, <<"gatk", "bin">>, <<"reference">>,
              <<"coverage_threshold">> }
      [] stage = "add_or_replace_readgroups" ->
            { <<"gatk", "max_mem">>, <<"picard">> }
      [] stage \in {"realign_target_creator", "realign_indels"} ->
            { <<"gatk", "max_mem">>, <<"reference">>, <<"indel1">>, <<"indel2">> }
      [] stage = "recalibrator" ->
            { <<"gatk", "max_mem">>, <<"reference">>, <<"dbsnp">> }
      [] stage = "run_mark_duplicates" ->
            { <<"gatk", "max_mem">>, <<"picard", "bin">> }
      [] OTHER -> {}

HasPath(d, path) ==
    /\ path[1] \in DOMAIN d
    /\ Len(path) = 2 => path[2] \in DOMAIN d[path[1]]

MissingKey(c) == \E path \in KeysRead(c.stage) : ~HasPath(c.config, path)

\* C4: a call of any stage with a configuration that lacks a key the stage
\* reads executes no command at any point and returns no artifact path, and
\* when it has ended it has ended with a KeyError.
C4_MissingKeyAbortsBeforeInvocation ==
    MissingKey(call) =>
        /\ Runs = <<>>
        /\ result.kind /= "return"
        /\ pc = 0 => result = Raised("KeyError")

C4_Witness ==
    /\ call.stage = "recalibrator"
    /\ "dbsnp" \notin DOMAIN call.config
    /\ pc = 0
    /\ result = Raised("KeyError")
    /\ trace = <<>>

----------------------------------------------------------------------------
(* C5 *)

\* the value of the return statement that ends a stage's statements
ReturnOf(program) == program[Len(program)].text

CompleteCalls == { c \in Calls : c.config \in CompleteConfigs }

\* what each call with a complete configuration returns
ReturnValue == [c \in CompleteCalls |-> ReturnOf(Program(c, 1))]

SameCallWith(c, config) == [c EXCEPT !.config = config]

ReturnedComplete ==
    /\ pc = 0
    /\ call.stage \in JobStages
    /\ call.config \in CompleteConfigs
    /\ result.kind = "return"

\* no other stage returns, for the sample of the call, what the call returned
NoOtherStageCollides ==
    \A c \in CompleteCalls :
        (c.sample = call.sample /\ c.stage /= call.stage) =>
            ReturnValue[c] /= result.value

\* C5 as stated: the path a stage returns differs from the path the same call
\* returns with a configuration in which the reference values are different,
\* and from the path any other stage returns for the same sample.
C5_UniquePerSampleToolReference ==
    ReturnedComplete =>
        /\ \A config \in CompleteConfigs :
              ( /\ config["reference"] /= call.config["reference"]
                /\ config["snpeff"]["reference"] /= call.config["snpeff"]["reference"] )
              => ReturnValue[SameCallWith(call, config)] /= result.value
        /\ NoOtherStageCollides

SnpeffNamedStages == {"snpeff", "gemini", "vcfanno"}

\* C5 amended: the paths snpeff, gemini and vcfanno return differ for the same
\* sample whenever the snpEff reference names (config['snpeff']['reference'])
\* differ; the path every other stage returns is fixed by the sample alone, so
\* two runs with distinct references return the same path; and for one sample
\* two different stages never return the same path.
C5_UniquePerSampleAndStage ==
    ReturnedComplete =>
        /\ call.stage \in SnpeffNamedStages =>
              \A config \in CompleteConfigs :
                 (config["snpeff"]["reference"] /= call.config["snpeff"]["reference"])
                 <=> (ReturnValue[SameCallWith(call, config)] /= result.value)
        /\ call.stage \notin SnpeffNamedStages =>
              \A config \in CompleteConfigs :
                 ReturnValue[SameCallWith(call, config)] = result.value
        /\ NoOtherStageCollides

C5_Witness ==
    /\ ReturnedComplete
    /\ call.stage = "snpeff"
    /\ result.value = "S1.snpEff.hg19.vcf"
    /\ ReturnValue[SameCallWith(call, FullConfig("b37.fa", "GRCh37"))]
          = "S1.snpEff.GRCh37.vcf"

----------------------------------------------------------------------------
(* C6 *)

\* The command strings the statements of a stage construct: the master-log
\* message of each command and the command line handed to the shell.
ConstructedStrings(program) ==
    LET stmts == SelectSeq(program, LAMBDA st : st.op \in {"log", "run"})
    IN  [i \in DOMAIN stmts |->
            IF stmts[i].op = "log"
            THEN stmts[i].text \o ReprTuple(stmts[i].argv) \o "\n"
            ELSE Join(stmts[i].argv, " ")]

\* The command strings the call constructed.
ObservedStrings ==
    LET ev == CommandEvents
    IN  [i \in DOMAIN ev |-> ev[i].text]

CpuStages == {"realign_indels", "recalibrator", "platypus_single"}

JobReturned == pc = 0 /\ call.stage \in JobStages /\ result.kind = "return"

\* C6 as stated: the command strings a stage constructed are the ones the same
\* call constructs on a machine with any other number of CPUs.
C6_CommandsFunctionOfInputsOnly ==
    JobReturned =>
        \A n \in 1..MaxCpu :
            ConstructedStrings(Program(call, n)) = ObservedStrings

\* C6 amended: for every stage other than realign_indels, recalibrator and
\* platypus_single the command strings a call constructed are the ones the
\* same call constructs on a machine with any number of CPUs; the commands of
\* those three stages carry multiprocessing.cpu_count() (-nt, -nct, --nCPU),
\* so the same call constructs the same strings exactly on the machines with
\* the same number of CPUs.
C6_CommandsFunctionOfInputsAndCpuCount ==
    JobReturned =>
        \A n \in 1..MaxCpu :
            (ConstructedStrings(Program(call, n)) = ObservedStrings)
            <=> (call.stage \notin CpuStages \/ n = cpu_count)

C6_Witness ==
    /\ JobReturned
    /\ call.stage = "annotate_vcf"
    /\ call.num_threads = 1
    /\ cpu_count = 2
    /\ ArgAfter(Runs[1].argv, "-nt") = "1"

----------------------------------------------------------------------------
(* C7 *)

\* the shell sends the standard output of the command to path
RedirectsTo(argv, path) ==
    \E i \in DOMAIN argv :
        \/ argv[i] = ">" \o path
        \/ argv[i] = ">" /\ i < Len(argv) /\ argv[i + 1] = path

\* the command names path with -o or OUTPUT=
NamesWithFlag(argv, path) ==
    \/ \E i \in 1..(Len(argv) - 1) : argv[i] = "-o" /\ argv[i + 1] = path
    \/ \E i \in DOMAIN argv : argv[i] = "OUTPUT=" \o path

GatkPicardStages ==
    { "diagnosetargets", "annotate_vcf", "filter_variants", "add_or_replace_readgroups",
      "realign_target_creator", "realign_indels", "recalibrator" }

\* C7 as stated: when snpeff, gemini or vcfanno returns, a command it executed
\* redirects standard output to the returned path; when a GATK or Picard stage
\* returns, a command it executed names the returned path with -o or OUTPUT=.
C7_OutputRedirectedOrFlagged ==
    /\ (JobReturned /\ call.stage \in {"snpeff", "gemini", "vcfanno"}) =>
          \E i \in DOMAIN Runs : RedirectsTo(Runs[i].argv, result.value)
    /\ (JobReturned /\ call.stage \in GatkPicardStages) =>
          \E i \in DOMAIN Runs : NamesWithFlag(Runs[i].argv, result.value)

----------------------------------------------------------------------------
(* C8 *)

RunArgvs(program) ==
    LET stmts == SelectSeq(program, LAMBDA st : st.op = "run")
    IN  [i \in DOMAIN stmts |-> stmts[i].argv]

\* C8: an execution that ended with a failure status never ends the call with
\* an exception, and a stage that returns has executed every command of its
\* run_and_log_command statements, in their order, and returns the path of its
\* return statement, whatever the exit statuses were.
C8_FailureInvisible ==
    /\ (\E i \in DOMAIN Runs : Runs[i].status /= 0) => result.kind /= "raise"
    /\ JobReturned =>
          /\ [i \in DOMAIN Runs |-> Runs[i].argv] = RunArgvs(Program(call, cpu_count))
          /\ result.value = ReturnOf(Program(call, cpu_count))

C8_Witness ==
    /\ JobReturned
    /\ call.stage = "recalibrator"
    /\ Len(Runs) = 3
    /\ Runs[1].status = 1
    /\ Runs[2].status = 0
    /\ result.value = "S1.recalibrated.sorted.bam"

----------------------------------------------------------------------------
(* C9 *)

\* the command names path as the file it writes
NamesAsOutput(argv, path) ==
    \/ NamesWithFlag(argv, path)
    \/ RedirectsTo(argv, path)
    \/ \E i \in DOMAIN argv : argv[i] = "--output=" \o path
    \/ (Len(argv) > 0 /\ argv[1] = "gemini" /\ argv[Len(argv)] = path)

\* C9 as stated: the path a stage returns is the output target of a command
\* the stage executed before it returned.
C9_ReturnedPathWasWritten ==
    JobReturned => \E i \in DOMAIN Runs : NamesAsOutput(Runs[i].argv, result.value)

----------------------------------------------------------------------------
(* C10 *)

\* C10 as stated: every command with a -T argument is announced in the master
\* log as "GATK <that tool> Command: "; realign_target_creator runs
\* RealignerTargetCreator with -o '{sample}.targets.intervals'; realign_indels
\* runs IndelRealigner with -targetIntervals the targets file it was given.
C10_ToolMatchesDocumentation ==
    /\ \A i \in DOMAIN LoggedCommands :
          LET e == LoggedCommands[i]
          IN  ArgAfter(e.argv, "-T") /= "" =>
                 e.text = "GATK " \o ArgAfter(e.argv, "-T") \o " Command: "
                             \o ReprTuple(e.argv) \o "\n"
    /\ StageReturned("realign_target_creator") =>
          /\ ArgAfter(Runs[1].argv, "-T") = "RealignerTargetCreator"
          /\ ArgAfter(Runs[1].argv, "-o") = call.sample \o ".targets.intervals"
    /\ StageReturned("realign_indels") =>
          /\ ArgAfter(Runs[1].argv, "-T") = "IndelRealigner"
          /\ ArgAfter(Runs[1].argv, "-targetIntervals") = call.targets

----------------------------------------------------------------------------
(* C11 *)

DedupName(record) == record["name"] \o ".dedup.sorted.bam"

\* the MarkDuplicates command line for a record, with the given INPUT
MarkDuplicatesCommandLine(tool_config, record, input) ==
    "java -Xmx" \o ToString(tool_config["gatk"]["max_mem"]) \o "g -jar "
    \o tool_config["picard"]["bin"]
    \o " MarkDuplicates CREATE_INDEX=true INPUT=" \o input
    \o " OUTPUT=" \o record["name"] \o ".dedup.sorted.bam"
    \o " METRICS_FILE=" \o record["name"] \o ".dedup.metrics"
    \o " VALIDATION_STRINGENCY=LENIENT"

ToolConfigComplete(tool_config) ==
    /\ HasPath(tool_config, <<"gatk", "max_mem">>)
    /\ HasPath(tool_config, <<"picard", "bin">>)

\* this step is a call of run_mark_duplicates
MarkDuplicatesStep ==
    /\ pc = 0
    /\ result = NoResult
    /\ call'.stage = "run_mark_duplicates"

\* the command of some instruction has INPUT equal to OUTPUT
InputIsOutput(command) ==
    \E record \in SampleRecords :
        command = MarkDuplicatesCommandLine(caller_configs.tool_config, record,
                                            DedupName(record))

\* C11 as stated: a call with a complete tool_config builds, for every record
\* that has a 'working_bam', a command with INPUT the working_bam of before the
\* call and OUTPUT '{name}.dedup.sorted.bam', and leaves the record with
\* working_bam = dedup_bam = '{name}.dedup.sorted.bam'; it leaves the three
\* configuration dicts unchanged; and no call, however often repeated, builds a
\* command with INPUT equal to OUTPUT.
C11_AsStated ==
    [][ (MarkDuplicatesStep /\ ToolConfigComplete(caller_configs.tool_config)) =>
          /\ \A i \in DOMAIN sample_config :
                "working_bam" \in DOMAIN sample_config[i] =>
                   /\ \E j \in DOMAIN instructions' :
                         instructions'[j][1] =
                            MarkDuplicatesCommandLine(caller_configs.tool_config,
                               sample_config[i], sample_config[i]["working_bam"])
                   /\ sample_config'[i]["working_bam"] = DedupName(sample_config[i])
                   /\ "dedup_bam" \in DOMAIN sample_config'[i]
                   /\ sample_config'[i]["dedup_bam"] = DedupName(sample_config[i])
          /\ caller_configs' = caller_configs
          /\ \A j \in DOMAIN instructions' : ~InputIsOutput(instructions'[j][1])
      ]_vars

\* the records a call gets through: those before the first record without a
\* 'working_bam', none when tool_config lacks a key the command needs
Processed ==
    { i \in DOMAIN sample_config :
        /\ ToolConfigComplete(caller_configs.tool_config)
        /\ \A j \in 1..i : "working_bam" \in DOMAIN sample_config[j] }

\* C11 amended: a call works through the records in order and raises KeyError
\* at the first record without a 'working_bam' (at the first record when
\* tool_config lacks gatk.max_mem or picard.bin).  For every record before
\* that one it builds, in order, the command with INPUT the working_bam of
\* before the call and OUTPUT '{name}.dedup.sorted.bam', and leaves the record
\* with working_bam = dedup_bam = '{name}.dedup.sorted.bam'; the failing record
\* gets only sorted_bam and dedup_bam set and the records after it are
\* untouched; the three configuration dicts are unchanged; and
\* a built command has INPUT equal to OUTPUT exactly when the record's
\* working_bam was '{name}.dedup.sorted.bam' already, as it is in every
\* repeated call on the same records.
C11_Amended ==
    [][ MarkDuplicatesStep =>
          /\ Len(instructions') = Cardinality(Processed)
          /\ \A i \in Processed :
                /\ instructions'[i] =
                      << MarkDuplicatesCommandLine(caller_configs.tool_config,
                            sample_config[i], sample_config[i]["working_bam"]),
                         sample_config[i]["name"] \o ".markduplicates.log" >>
                /\ sample_config'[i]["working_bam"] = DedupName(sample_config[i])
                /\ sample_config'[i]["dedup_bam"] = DedupName(sample_config[i])
                /\ InputIsOutput(instructions'[i][1])
                      <=> (sample_config[i]["working_bam"] = DedupName(sample_config[i]))
          /\ \A i \in DOMAIN sample_config :
                i > Cardinality(Processed) + 1 => sample_config'[i] = sample_config[i]
          /\ \A i \in DOMAIN sample_config :
                i = Cardinality(Processed) + 1 =>
                   /\ sample_config'[i]["dedup_bam"] = DedupName(sample_config[i])
                   /\ \A k \in DOMAIN sample_config[i] :
                         /\ k \in DOMAIN sample_config'[i]
                         /\ k \notin {"sorted_bam", "dedup_bam"} =>
                               sample_config'[i][k] = sample_config[i][k]
          /\ result' = IF Processed = DOMAIN sample_config
                       THEN Returned("None") ELSE Raised("KeyError")
          /\ caller_configs' = caller_configs
      ]_vars

C11_Witness ==
    /\ call.stage = "run_mark_duplicates"
    /\ result = Returned("None")
    /\ Len(instructions) = 2
    /\ instructions[2][1] =
          "java -Xmx4g -jar /opt/picard.jar MarkDuplicates CREATE_INDEX=true "
          \o "INPUT=S2.dedup.sorted.bam OUTPUT=S2.dedup.sorted.bam "
          \o "METRICS_FILE=S2.dedup.metrics VALIDATION_STRINGENCY=LENIENT"

====
